---- MODULE Spec2Model ----
(***************************************************************************)
(* Model of deploy.py, the QiTlalli GCP deployment manager.                *)
(*                                                                         *)
(* One process run is main() from the authentication check (the manager    *)
(* is already constructed) to process exit.  The secret store of the       *)
(* project outlives a run, so a behaviour is a sequence of runs against    *)
(* the same store.  Every provider call is one step whose outcome (normal  *)
(* return or raised exception) is chosen by the environment.               *)
(*                                                                         *)
(* Secret store semantics assumed of the provider: get_secret of an absent *)
(* secret raises (NotFound) and of an existing one returns or raises some  *)
(* other error; create_secret of an existing secret raises (AlreadyExists) *)
(* and of an absent one creates it or raises; add_secret_version of an     *)
(* existing secret appends a version or raises.  A call that raises has    *)
(* changed nothing.  Nobody else changes the required secrets of the       *)
(* project between or during the runs.  The imports inside the methods     *)
(* that cannot fail once the module itself was imported (standard library, *)
(* requests) are not steps of the model; the imports of                    *)
(* setup_service_account can fail and decide its result.                   *)
(***************************************************************************)
EXTENDS Integers, Sequences, FiniteSets, TLC

VARIABLES
  config,           \* GCPConfig of the manager
  store,            \* Secret Manager of the project: name -> [exists, versions]
  run,              \* number of the current process run
  action,           \* args.action of the current run
  pc,               \* position of the current run in main()
  idx,              \* position of the for loop of create_secrets in secrets_config
  created_secrets,  \* the dict created_secrets of create_secrets
  steps,            \* manager methods invoked by main() in this run, in order
  results,          \* <<method, return value>> of the methods that have returned
  calls,            \* provider API calls of this run, in order: [op, name, result]
  http_requests,    \* HTTP requests of this run, in order: [url, response]
  exit_status,      \* process exit status, -1 while the run has not exited
  reported_count,   \* len(secrets) logged by main(), -1 when nothing was logged
  start_store,      \* the store as it was when the current run started
  prev,             \* summary of the previous run
  partial           \* secrets whose add_secret_version raised after create_secret succeeded

vars == <<config, store, run, action, pc, idx, created_secrets, steps, results,
          calls, http_requests, exit_status, reported_count, start_store, prev, partial>>

\* ------------------------------------------------------------------ bounds

MaxRuns == 2

ProjectIds == {"qitlalli-prod"}

\* ------------------------------------------------------------- program data

Actions == {"setup", "deploy", "secrets"}

GCPConfig(project_id) ==
  [project_id |-> project_id,
   region |-> "us-central1",
   service_name |-> "qitlalli-odoo",
   db_instance_name |-> "qitlalli-db",
   service_account |-> "qitlalli-service-account"]

\* A generated password: `length` characters drawn from the 70-character alphabet.
generate_password(length) == [kind |-> "random", len |-> length]

Placeholder == [kind |-> "PLACEHOLDER-UPDATE-MANUALLY", len |-> 27]

\* Keys of secrets_config in dict (insertion) order.
SecretOrder ==
  <<"qitlalli-db-password", "qitlalli-admin-password", "qitlalli-jwt-secret",
    "qitlalli-email-password", "qitlalli-whatsapp-token">>

RequiredSecrets == {SecretOrder[i] : i \in 1..Len(SecretOrder)}

secrets_config ==
  [n \in RequiredSecrets |->
     CASE n = "qitlalli-db-password"    -> generate_password(32)
       [] n = "qitlalli-admin-password" -> generate_password(24)
       [] n = "qitlalli-jwt-secret"     -> generate_password(64)
       [] n = "qitlalli-email-password" -> Placeholder
       [] n = "qitlalli-whatsapp-token" -> Placeholder]

\* payload {"data": secret_value.encode()}: the bytes of an ASCII string.
Payload(secret_value) == [data |-> [kind |-> secret_value.kind, bytes |-> secret_value.len]]

\* ------------------------------------------------------------ environment

Absent == [exists |-> FALSE, versions |-> <<>>]

\* A secret that somebody else put into the project before the first run.
Foreign == [exists |-> TRUE, versions |-> <<[data |-> [kind |-> "foreign", bytes |-> 8]]>>]

AuthOutcomes == {"ok", "DefaultCredentialsError", "Exception"}

GetSecretOutcomes(s) == IF s.exists THEN {"ok", "raised"} ELSE {"raised"}

CreateSecretOutcomes(s) == IF s.exists THEN {"raised"} ELSE {"ok", "raised"}

AddSecretVersionOutcomes(s) == IF s.exists THEN {"ok", "raised"} ELSE {"raised"}

HttpResponses ==
  [kind : {"response"}, status_code : {200, 204, 301, 404, 500, 503}]
    \cup {[kind |-> "timeout", status_code |-> 0],
          [kind |-> "connection_error", status_code |-> 0]}

Call(op, name, result) == [op |-> op, name |-> name, result |-> result]

\* ------------------------------------------------- methods (return values)

\* try: list projects, return True; except DefaultCredentialsError / Exception: return False
check_authentication(outcome) == outcome = "ok"

\* try: the two imports, return True; except Exception: return False
setup_service_account(imports_ok) == imports_ok

\* Faulty variant: the except branch reports success too.
build_and_deploy_swallow(create_build_result) == TRUE

\* try: create_build(...), return True; except Exception: return False
build_and_deploy(create_build_result) == create_build_result = "ok"

\* f"https://{service_name}-{project_id}.run.app", as the sequence of its pieces
get_service_url(cfg) == <<"https://", cfg.service_name, "-", cfg.project_id, ".run.app">>

\* f"{service_url}/web/health"
health_url(service_url) == service_url \o <<"/web/health">>

\* Faulty variant: any 2xx status counts as healthy.
run_health_check_2xx(response) ==
  response.kind = "response" /\ response.status_code >= 200 /\ response.status_code < 300

\* requests.get returned and status_code == 200: True; other status or exception: False
run_health_check(response) == response.kind = "response" /\ response.status_code = 200

\* ------------------------------------------------------ main(): control flow

first_step(act) ==
  CASE act = "setup"   -> "setup_service_account"
    [] act = "secrets" -> "create_secrets"
    [] act = "deploy"  -> "build_and_deploy"

\* Faulty variant: the result of the authentication check is ignored.
after_check_authentication_continue(ok, act) == first_step(act)

\* if not manager.check_authentication(): sys.exit(1)
after_check_authentication(ok, act) == IF ok THEN first_step(act) ELSE "exit_1"

\* Faulty variant: the result of the service account setup is ignored.
after_setup_service_account_ignore(ok) == "create_secrets"

\* if not manager.setup_service_account(): raise Exception(...)  -> except: sys.exit(1)
after_setup_service_account(ok) == IF ok THEN "create_secrets" ELSE "exit_1"

\* if not manager.build_and_deploy(): raise Exception(...)  -> except: sys.exit(1)
after_build_and_deploy(ok) == IF ok THEN "get_service_url" ELSE "exit_1"

\* if service_url: ... run_health_check(service_url); otherwise main() simply ends
after_get_service_url(service_url) ==
  IF service_url # <<>> THEN "run_health_check" ELSE "exit_0"

\* Faulty variant: a failed health check fails the run.
after_run_health_check_strict(ok) == IF ok THEN "exit_0" ELSE "exit_1"

\* health check passed: info; failed: warning; main() ends either way
after_run_health_check(ok) == "exit_0"

\* secrets = manager.create_secrets(); logger.info(len(secrets)); main() ends
after_create_secrets(secrets) == "exit_0"

\* ------------------------------------------- create_secrets(): control flow

\* Faulty variant: the existence check never skips.
after_get_secret_always_create(result) == "create_secret"

\* inner try: get_secret returned -> "already exists"; bare except -> create it
after_get_secret(result) == IF result = "ok" THEN "next_secret" ELSE "create_secret"

\* Faulty variant: the try is around the loop, an error ends the batch.
after_create_secret_abort(result) ==
  IF result = "ok" THEN "add_secret_version" ELSE "create_secrets_return"

\* Faulty variant: an error of create_secret is swallowed and the version added anyway.
after_create_secret_always_add(result) == "add_secret_version"

\* create_secret returned -> add the version; raised -> outer except, next secret
after_create_secret(result) == IF result = "ok" THEN "add_secret_version" ELSE "next_secret"

\* add_secret_version returned -> recorded; raised -> outer except; next secret either way
after_add_secret_version(result) == "next_secret"

\* Faulty variant: created_secrets is emptied in every iteration.
record_created_reset(created, name, result) ==
  IF result = "ok" THEN [m \in {name} |-> secrets_config[name]] ELSE created

\* created_secrets[secret_name] = secret_value, reached only when nothing raised
record_created(created, name, result) ==
  IF result = "ok"
    THEN [m \in DOMAIN created \cup {name} |->
            IF m = name THEN secrets_config[name] ELSE created[m]]
    ELSE created

\* ------------------------------------------------------------------ steps

Goto(target) ==
  /\ pc' = IF target \in {"exit_0", "exit_1"} THEN "exited" ELSE target
  /\ exit_status' = CASE target = "exit_0" -> 0
                      [] target = "exit_1" -> 1
                      [] OTHER -> exit_status

\* Next position inside the for loop of create_secrets.
LoopGoto(target) ==
  IF target = "next_secret"
    THEN /\ idx' = idx + 1
         /\ pc' = IF idx < Len(SecretOrder) THEN "get_secret" ELSE "create_secrets_return"
    ELSE /\ idx' = idx
         /\ pc' = target

\* What is remembered of the previous run: whether it was a run of action "secrets"
\* that returned from create_secrets(), and whether a create_secret call of it raised.
NoRun == [secrets_completed |-> FALSE, create_raised |-> FALSE]

Init ==
  /\ config \in {GCPConfig(p) : p \in ProjectIds}
  /\ store \in [RequiredSecrets -> {Absent, Foreign}]
  /\ run = 1
  /\ action \in Actions
  /\ pc = "check_authentication"
  /\ idx = 0
  /\ created_secrets = [m \in {} |-> Absent]
  /\ steps = <<>>
  /\ results = <<>>
  /\ calls = <<>>
  /\ http_requests = <<>>
  /\ exit_status = -1
  /\ reported_count = -1
  /\ start_store = store
  /\ prev = NoRun
  /\ partial = {}

CheckAuthentication ==
  /\ pc = "check_authentication"
  /\ \E outcome \in AuthOutcomes :
       LET ok == check_authentication(outcome) IN
         /\ steps' = Append(steps, "check_authentication")
         /\ results' = Append(results, <<"check_authentication", ok>>)
         /\ calls' = Append(calls, Call("list_projects", config.project_id, outcome))
         /\ Goto(after_check_authentication(ok, action))
  /\ UNCHANGED <<config, http_requests, store, run, action, idx, created_secrets, reported_count,
                 start_store, prev, partial>>

SetupServiceAccount ==
  /\ pc = "setup_service_account"
  /\ \E imports_ok \in BOOLEAN :
       LET ok == setup_service_account(imports_ok) IN
         /\ steps' = Append(steps, "setup_service_account")
         /\ results' = Append(results, <<"setup_service_account", ok>>)
         /\ Goto(after_setup_service_account(ok))
  /\ UNCHANGED <<config, http_requests, store, run, action, idx, created_secrets, calls,
                 reported_count, start_store, prev, partial>>

CreateSecretsBegin ==
  /\ pc = "create_secrets"
  /\ steps' = Append(steps, "create_secrets")
  /\ created_secrets' = [m \in {} |-> Absent]
  /\ idx' = 1
  /\ pc' = "get_secret"
  /\ UNCHANGED <<config, http_requests, store, run, action, results, calls, exit_status,
                 reported_count, start_store, prev, partial>>

GetSecret ==
  /\ pc = "get_secret"
  /\ LET name == SecretOrder[idx] IN
       \E result \in GetSecretOutcomes(store[name]) :
         /\ calls' = Append(calls, Call("get_secret", name, result))
         /\ LoopGoto(after_get_secret(result))
  /\ UNCHANGED <<config, http_requests, store, run, action, created_secrets, steps, results,
                 exit_status, reported_count, start_store, prev, partial>>

CreateSecret ==
  /\ pc = "create_secret"
  /\ LET name == SecretOrder[idx] IN
       \E result \in CreateSecretOutcomes(store[name]) :
         /\ calls' = Append(calls, Call("create_secret", name, result))
         /\ store' = IF result = "ok"
                       THEN [store EXCEPT ![name] = [exists |-> TRUE, versions |-> <<>>]]
                       ELSE store
         /\ LoopGoto(after_create_secret(result))
  /\ UNCHANGED <<config, http_requests, run, action, created_secrets, steps, results,
                 exit_status, reported_count, start_store, prev, partial>>

AddSecretVersion ==
  /\ pc = "add_secret_version"
  /\ LET name == SecretOrder[idx] IN
       \E result \in AddSecretVersionOutcomes(store[name]) :
         /\ calls' = Append(calls, Call("add_secret_version", name, result))
         /\ store' = IF result = "ok"
                       THEN [store EXCEPT ![name].versions =
                               Append(@, Payload(secrets_config[name]))]
                       ELSE store
         /\ created_secrets' = record_created(created_secrets, name, result)
         /\ partial' = IF result = "raised" /\ store[name].exists
                            /\ store[name].versions = <<>>
                         THEN partial \cup {name} ELSE partial
         /\ LoopGoto(after_add_secret_version(result))
  /\ UNCHANGED <<config, http_requests, run, action, steps, results, exit_status, reported_count,
                 start_store, prev>>

CreateSecretsReturn ==
  /\ pc = "create_secrets_return"
  /\ results' = Append(results, <<"create_secrets", TRUE>>)
  /\ reported_count' = Cardinality(DOMAIN created_secrets)
  /\ Goto(after_create_secrets(created_secrets))
  /\ UNCHANGED <<config, http_requests, store, run, action, idx, created_secrets, steps, calls,
                 start_store, prev, partial>>

BuildAndDeploy ==
  /\ pc = "build_and_deploy"
  /\ \E result \in {"ok", "raised"} :
       LET ok == build_and_deploy(result) IN
         /\ steps' = Append(steps, "build_and_deploy")
         /\ results' = Append(results, <<"build_and_deploy", ok>>)
         /\ calls' = Append(calls, Call("create_build", config.project_id, result))
         /\ Goto(after_build_and_deploy(ok))
  /\ UNCHANGED <<config, http_requests, store, run, action, idx, created_secrets, reported_count,
                 start_store, prev, partial>>

GetServiceUrl ==
  /\ pc = "get_service_url"
  /\ LET service_url == get_service_url(config) IN
       /\ steps' = Append(steps, "get_service_url")
       /\ results' = Append(results, <<"get_service_url", service_url # <<>> >>)
       /\ Goto(after_get_service_url(service_url))
  /\ UNCHANGED <<config, http_requests, store, run, action, idx, created_secrets, calls,
                 reported_count, start_store, prev, partial>>

RunHealthCheck ==
  /\ pc = "run_health_check"
  /\ \E response \in HttpResponses :
       LET ok == run_health_check(response) IN
         /\ steps' = Append(steps, "run_health_check")
         /\ results' = Append(results, <<"run_health_check", ok>>)
         /\ http_requests' = Append(http_requests,
                                     [url |-> health_url(get_service_url(config)),
                                      response |-> response])
         /\ Goto(after_run_health_check(ok))
  /\ UNCHANGED <<config, store, run, action, idx, created_secrets, calls,
                 reported_count, start_store, prev, partial>>

Raised(op) == {calls[i].name : i \in {j \in 1..Len(calls) :
                                        calls[j].op = op /\ calls[j].result = "raised"}}

\* The script is started again against the same project.
StartRun ==
  /\ pc = "exited"
  /\ run < MaxRuns
  /\ run' = run + 1
  /\ action' \in Actions
  /\ prev' = IF action = "secrets" /\ exit_status = 0
               THEN [secrets_completed |-> TRUE,
                     create_raised |-> Raised("create_secret") # {}]
               ELSE NoRun
  /\ pc' = "check_authentication"
  /\ idx' = 0
  /\ created_secrets' = [m \in {} |-> Absent]
  /\ steps' = <<>>
  /\ results' = <<>>
  /\ calls' = <<>>
  /\ http_requests' = <<>>
  /\ exit_status' = -1
  /\ reported_count' = -1
  /\ start_store' = store
  /\ UNCHANGED <<config, store, partial>>

Next ==
  \/ CheckAuthentication
  \/ SetupServiceAccount
  \/ CreateSecretsBegin
  \/ GetSecret
  \/ CreateSecret
  \/ AddSecretVersion
  \/ CreateSecretsReturn
  \/ BuildAndDeploy
  \/ GetServiceUrl
  \/ RunHealthCheck
  \/ StartRun

Spec == Init /\ [][Next]_vars

\* ------------------------------------------------------------ observations

Invoked(method) == \E i \in 1..Len(steps) : steps[i] = method

Returned(method, value) == \E i \in 1..Len(results) : results[i] = <<method, value>>

\* Positions of the calls of `op` in this run.
CallsAt(op) == {j \in 1..Len(calls) : calls[j].op = op}

\* Names for which a call of `op` with `result` was made in this run.
NamesOf(op, result) == {calls[j].name : j \in {k \in CallsAt(op) : calls[k].result = result}}

SecretStoreOps == {"get_secret", "create_secret", "add_secret_version"}

SecretStoreCalls == {j \in 1..Len(calls) : calls[j].op \in SecretStoreOps}

AuthFailed == Returned("check_authentication", FALSE)

Exited == pc = "exited"

ExistedAtStart(n) == start_store[n].exists

\* Created in this run with exactly one version, which holds the configured non-empty value.
CreatedWithOneVersion(n) ==
  /\ ~ExistedAtStart(n)
  /\ store[n].exists
  /\ Len(store[n].versions) = 1
  /\ store[n].versions[1] = Payload(secrets_config[n])
  /\ store[n].versions[1].data.bytes > 0

\* --------------------------------------------------------------------- C1

\* C1: after create_secrets() returns, under every combination of call outcomes,
\* every required secret that is in the store either existed before the call and
\* was not mutated, or was created during the call and has exactly one version
\* with a non-empty value; no secret is left created with zero versions.
C1_NoSecretWithoutVersion ==
  Returned("create_secrets", TRUE) =>
    \A n \in RequiredSecrets :
      store[n].exists =>
        \/ ExistedAtStart(n) /\ store[n] = start_store[n]
        \/ CreatedWithOneVersion(n)

\* --------------------------------------------------------------------- C2

\* C2: when the authentication check fails, for any action, the process has exited
\* with status 1, no other manager method was invoked and no secret store, build
\* service or HTTP call was made.
C2_AuthFailureAbortsRun ==
  AuthFailed =>
    /\ Exited /\ exit_status = 1
    /\ steps = <<"check_authentication">>
    /\ \A j \in 1..Len(calls) : calls[j].op = "list_projects"
    /\ http_requests = <<>>
    /\ store = start_store
    /\ reported_count = -1

C2_Witness ==
  /\ AuthFailed /\ Exited /\ exit_status = 1
  /\ action = "setup"
  /\ calls[1].result = "DefaultCredentialsError"
  /\ \E n \in RequiredSecrets : ~store[n].exists

\* --------------------------------------------------------------------- C3

BuildFailed == action = "deploy" /\ NamesOf("create_build", "raised") # {}

\* C3: in action "deploy", when create_build raises, the process has exited with
\* status 1 and neither get_service_url nor run_health_check was invoked; no HTTP
\* request was made.
C3_BuildFailureSkipsHealthCheck ==
  BuildFailed =>
    /\ Returned("build_and_deploy", FALSE)
    /\ Exited /\ exit_status = 1
    /\ ~Invoked("get_service_url")
    /\ ~Invoked("run_health_check")
    /\ http_requests = <<>>

C3_Witness ==
  /\ BuildFailed /\ Exited /\ exit_status = 1
  /\ steps = <<"check_authentication", "build_and_deploy">>

\* --------------------------------------------------------------------- C4

NoneExistedAtStart == \A n \in RequiredSecrets : ~ExistedAtStart(n)

NoCreateOrAddRaised ==
  NamesOf("create_secret", "raised") = {} /\ NamesOf("add_secret_version", "raised") = {}

\* C4: action "secrets" with authentication succeeding and no create_secret or
\* add_secret_version call failing, on a project with none of the five secrets:
\* exactly five create_secret calls, one per required name, each immediately
\* followed by one add_secret_version call for the same name, and a reported
\* count of 5.
C4_FreshProjectCreatesFive ==
  (action = "secrets" /\ Exited /\ ~AuthFailed /\ NoneExistedAtStart /\ NoCreateOrAddRaised) =>
    /\ Cardinality(CallsAt("create_secret")) = 5
    /\ Cardinality(CallsAt("add_secret_version")) = 5
    /\ \A n \in RequiredSecrets :
         Cardinality({j \in CallsAt("create_secret") : calls[j].name = n}) = 1
    /\ \A j \in CallsAt("create_secret") :
         /\ j < Len(calls)
         /\ calls[j + 1].op = "add_secret_version"
         /\ calls[j + 1].name = calls[j].name
    /\ Cardinality(DOMAIN created_secrets) = 5
    /\ reported_count = 5
    /\ exit_status = 0

C4_Witness ==
  /\ action = "secrets" /\ Exited /\ ~AuthFailed /\ NoneExistedAtStart
  /\ NoCreateOrAddRaised
  /\ reported_count = 5
  /\ \A n \in RequiredSecrets : CreatedWithOneVersion(n)

\* --------------------------------------------------------------------- C5

SecondSecretsRun == prev.secrets_completed /\ action = "secrets"

Failing ==
  {n \in NamesOf("get_secret", "raised") : ExistedAtStart(n)}
    \cup NamesOf("create_secret", "raised")
    \cup NamesOf("add_secret_version", "raised")

\* C6: whatever subset of the secrets fails, a run that entered create_secrets()
\* exits only through its normal return, every required secret had its existence
\* checked once, in order, every secret without a failure that was absent is
\* created with one version, and the returned mapping holds exactly the secrets
\* whose create_secret and add_secret_version both succeeded in this run.
C6_FailuresAreIsolated ==
  (Invoked("create_secrets") /\ Exited) =>
    /\ Returned("create_secrets", TRUE)
    /\ exit_status = 0
    /\ LET gets == SelectSeq(calls, LAMBDA c : c.op = "get_secret")
       IN  [i \in 1..Len(gets) |-> gets[i].name] = SecretOrder
    /\ \A n \in RequiredSecrets \ Failing :
         IF ExistedAtStart(n) THEN store[n] = start_store[n] ELSE CreatedWithOneVersion(n)
    /\ DOMAIN created_secrets =
         NamesOf("create_secret", "ok") \cap NamesOf("add_secret_version", "ok")
    /\ \A n \in DOMAIN created_secrets : created_secrets[n] = secrets_config[n]
    /\ reported_count = Cardinality(DOMAIN created_secrets)

C6_Witness ==
  /\ Invoked("create_secrets") /\ Exited
  /\ "qitlalli-db-password" \in NamesOf("create_secret", "raised")
  /\ "qitlalli-admin-password" \in NamesOf("add_secret_version", "raised")
  /\ "qitlalli-jwt-secret" \in NamesOf("get_secret", "raised")
  /\ ExistedAtStart("qitlalli-jwt-secret")
  /\ DOMAIN created_secrets = {"qitlalli-email-password", "qitlalli-whatsapp-token"}

\* --------------------------------------------------------------------- C7

StepFailed ==
  \/ AuthFailed
  \/ action = "setup" /\ Returned("setup_service_account", FALSE)
  \/ action = "deploy" /\ Returned("build_and_deploy", FALSE)

C8_HealthCheckResult ==
  Invoked("run_health_check") =>
    /\ Len(http_requests) = 1
    /\ http_requests[1].url = get_service_url(config) \o <<"/web/health">>
    /\ Returned("run_health_check", TRUE) \/ Returned("run_health_check", FALSE)
    /\ Returned("run_health_check", TRUE) <=>
         (http_requests[1].response.kind = "response"
            /\ http_requests[1].response.status_code = 200)
    /\ Exited /\ exit_status = 0

C8_Witness ==
  /\ Invoked("run_health_check")
  /\ http_requests[1].response.kind = "response"
  /\ http_requests[1].response.status_code = 204
  /\ Returned("run_health_check", FALSE)

\* --------------------------------------------------------------------- C9

Pipeline(act) ==
  CASE act = "setup"   -> <<"check_authentication", "setup_service_account", "create_secrets">>
    [] act = "secrets" -> <<"check_authentication", "create_secrets">>
    [] act = "deploy"  -> <<"check_authentication", "build_and_deploy", "get_service_url",
                            "run_health_check">>

\* C9: the methods invoked in a run are a prefix of the fixed sequence of its
\* action (fixed order, each at most once), a method is invoked only after every
\* earlier one reported success, and a failed service account setup in action
\* "setup" leaves the secret store uncalled and exits with status 1.
C9_LinearSteps ==
  /\ Len(steps) <= Len(Pipeline(action))
  /\ steps = SubSeq(Pipeline(action), 1, Len(steps))
  /\ \A i \in 1..Len(steps) : \A j \in 1..(i - 1) : Returned(steps[j], TRUE)
  /\ (action = "setup" /\ Returned("setup_service_account", FALSE)) =>
       /\ SecretStoreCalls = {}
       /\ ~Invoked("create_secrets")
       /\ Exited /\ exit_status = 1

C9_Witness ==
  /\ action = "setup" /\ Returned("setup_service_account", FALSE)
  /\ Exited /\ exit_status = 1
  /\ steps = <<"check_authentication", "setup_service_account">>

\* -------------------------------------------------------------------- C10

====
